---- MODULE Spec2Model ----
(***************************************************************************)
(* Job execution engine of the inference runners (FLUX_app/runner.py and   *)
(* OCR_app/runner.py share the task store, worker and HTTP handler code).  *)
(*                                                                         *)
(* Threads: the worker thread (worker()) and the HTTP server thread.  The  *)
(* server is a plain http.server.HTTPServer, which serves one request at a *)
(* time, so request handlers are atomic with respect to each other and     *)
(* interleave only with the worker.  Every access to `tasks` is made under *)
(* tasks_lock; one action of the model is one lock-protected section       *)
(* together with the lock-free code around it that touches no shared data. *)
(*                                                                         *)
(* Time is a discrete clock (time.time()) starting at 1, so that a stamped *)
(* timestamp is never falsy.  The three configuration constants are scaled *)
(* down from seconds to ticks.                                             *)
(***************************************************************************)
EXTENDS Integers, Sequences, FiniteSets, TLC

\* ---- bounds of the model ----
\* Submissions accepted in a run of Spec, and in a run of SpecBurst.
MaxTasks == 2
MaxBurst == 3
\* Submissions accepted in a run of SpecApi.
MaxApiTasks == 1
\* The last tick of the clock.
MaxTime == 3
\* The largest number of blocks of one family, and the forward passes made
\* on one streaming wrapper.
MaxBlocks == 3
MaxPasses == 2

\* ---- configuration (runner.py), scaled down to clock ticks ----
MAX_TASK_HISTORY == 1
TASK_TTL_SECONDS == 1
TASK_TIMEOUT_SECONDS == 1

\* Python's None for the optional timestamps.
None == 0

Handles == 1..MaxBurst
Times == 1..MaxTime

terminal == {"DONE", "ERROR", "CANCELLED", "TIMEOUT"}
active == {"QUEUED", "PROCESSING"}

VARIABLES
    tasks,        \* the registry: handle -> record (dict `tasks`)
    task_queue,   \* FIFO of handles (queue.Queue)
    clock,        \* time.time()
    nextId,       \* the next fresh handle (uuid4 never repeats)
    pc,           \* position of the worker thread
    cur,          \* worker local task_id
    wnow,         \* worker local `now` (line 529)
    to_remove,    \* _purge_old_tasks local: what the run just made popped
    purge_now,    \* _purge_old_tasks local `now`
    purge_seen,   \* history: status and created_at of the records that run read
    queue_pos,    \* queue_position in the response just sent by create, or -1
    resp,         \* the response just sent by cancel or remove (SpecApi)
    cancel_at,    \* history: handle -> status at which its cancel was accepted
    overran       \* history: do_inference of cur was running past the ceiling

vars == <<tasks, task_queue, clock, nextId, pc, cur, wnow, to_remove,
          purge_now, purge_seen, queue_pos, resp, cancel_at, overran>>

\* The locals of _purge_old_tasks, dead outside it.
purge_locals == <<to_remove, purge_now, purge_seen>>

\* The streaming transformer (test.py, StreamingFlux2Transformer), which the
\* runner builds once at load time and whose __call__ replaces
\* transformer.forward.
VARIABLES
    n_double,     \* len(transformer.transformer_blocks)
    n_single,     \* len(transformer.single_transformer_blocks)
    place,        \* block -> "cpu", "copying" (on copy_stream) or "gpu"
    spc,          \* position of the thread inside __call__ / _stream_blocks
    fam,          \* the family whose _stream_blocks call is running
    idx,          \* loop variable i of _stream_blocks
    hs,           \* hs_container: the computations applied, in order
    total_steps,  \* self._total_steps
    flag_age      \* 0: cancel_requested of the running job is not set;
                  \* k > 0: it is set and k - 1 blocks began computing since

stream_vars ==
    <<n_double, n_single, place, spc, fam, idx, hs, total_steps, flag_age>>

\* The main thread (main, lines 805-817).
VARIABLES
    main          \* position of the main thread: "serving" (serve_forever),
                  \* "finally", "closing" or "exited" (the process is gone)

\* tasks_lock and the two threads that take it, at the grain of the `with
\* tasks_lock:` blocks (the other specifications take each block as one
\* step).
VARIABLES
    lock,         \* tasks_lock: "free", or the thread inside a with block
    wsec,         \* the statement the worker thread is at
    req           \* the request the server thread handles, and its phase

lock_vars == <<lock, wsec, req>>

process_vars == <<main, lock_vars>>

\* The process is alive: its threads run.
Running == main # "exited"

\* The main thread is inside serve_forever, the only place where requests
\* are handled (HTTPServer handles them on the calling thread).
Serving == main = "serving"

Range(q) == {q[i] : i \in DOMAIN q}

\* The history of a handle is kept while the task is in flight: while it is
\* queued or is the worker's current task.
Forget(g, q, c) ==
    [h \in DOMAIN g |-> IF h \in Range(q) \cup {c} THEN g[h] ELSE "none"]

\* No response of cancel or remove is on record.
NoResp == [op |-> "none"]

\* A step that is not a request sends no response.
NoResponse == queue_pos' = -1 /\ resp' = NoResp

\* ------------------------------------------------------------------------
\* Task storage helpers
\* ------------------------------------------------------------------------

\* dict.update(kwargs) on one record.
Merge(t, upd) ==
    [f \in DOMAIN t |-> IF f \in DOMAIN upd THEN upd[f] ELSE t[f]]

\* _update_task: merge under the lock, no-op for an unknown handle.
UpdateTask(ts, h, upd) ==
    IF h \in DOMAIN ts THEN [ts EXCEPT ![h] = Merge(ts[h], upd)] ELSE ts

\* Mutation: the update after the PIPE call reports less than the one
\* before it.
ProgressAtDropping(stage) ==
    CASE stage = "start" -> 2
      [] stage = "prepare" -> 5
      [] stage = "generate" -> 10
      [] stage = "run" -> 20
      [] stage = "save" -> 15
      [] stage = "finish" -> 98
      [] stage = "done" -> 100

\* The progress value of each update of a running job, in percent: 0.02
\* (line 530), 0.05 (439), 0.1 (446), 0.2 (483), 0.9 (496), 0.98 (502) and
\* 1.0 with DONE (538).
ProgressAt(stage) ==
    CASE stage = "start" -> 2
      [] stage = "prepare" -> 5
      [] stage = "generate" -> 10
      [] stage = "run" -> 20
      [] stage = "save" -> 90
      [] stage = "finish" -> 98
      [] stage = "done" -> 100

\* tasks.pop(tid, None) for every tid of a set.
Pop(ts, S) == [h \in DOMAIN ts \ S |-> ts[h]]

IsCancelled(ts, h) == h \in DOMAIN ts /\ ts[h].cancel_requested

\* Mutation: the check fires one time unit before the ceiling is reached.
CheckTimeoutEarly(ts, h, now) ==
    /\ h \in DOMAIN ts
    /\ ts[h].started_at # None
    /\ now - ts[h].started_at >= TASK_TIMEOUT_SECONDS - 1

\* Mutation: the ceiling itself already counts as a timeout.
CheckTimeoutAtCeiling(ts, h, now) ==
    /\ h \in DOMAIN ts
    /\ ts[h].started_at # None
    /\ now - ts[h].started_at >= TASK_TIMEOUT_SECONDS

CheckTimeout(ts, h, now) ==
    /\ h \in DOMAIN ts
    /\ ts[h].started_at # None
    /\ now - ts[h].started_at > TASK_TIMEOUT_SECONDS

\* The side effect of _check_timeout.
CheckTimeoutTasks(ts, h, now) ==
    IF CheckTimeout(ts, h, now)
    THEN [ts EXCEPT ![h].cancel_requested = TRUE,
                    ![h].message = "Timed out after limit"]
    ELSE ts

\* _should_stop: `_is_cancelled(id) or _check_timeout(id)` (short circuit).
ShouldStop(ts, h, now) == IsCancelled(ts, h) \/ CheckTimeout(ts, h, now)

ShouldStopTasks(ts, h, now) ==
    IF IsCancelled(ts, h) THEN ts ELSE CheckTimeoutTasks(ts, h, now)

\* ------------------------------------------------------------------------
\* Retention
\* ------------------------------------------------------------------------

\* Mutation: the TTL loop without its status test.
TTLExpiredAnyStatus(ts, now) ==
    {h \in DOMAIN ts : now - ts[h].created_at > TASK_TTL_SECONDS}

\* Mutation: the TTL loop with the age test off by one.
TTLExpiredLate(ts, now) ==
    {h \in DOMAIN ts : /\ ts[h].status \in terminal
                       /\ now - ts[h].created_at > TASK_TTL_SECONDS + 1}

\* First loop of _purge_old_tasks: terminal records older than the TTL.
TTLExpired(ts, now) ==
    {h \in DOMAIN ts : /\ ts[h].status \in terminal
                       /\ now - ts[h].created_at > TASK_TTL_SECONDS}

\* Mutation: the sort key reversed (newest first).
NewestFirst(ts, a, b) ==
    \/ ts[a].created_at > ts[b].created_at
    \/ ts[a].created_at = ts[b].created_at /\ a < b

\* The order of sorted(tasks.keys(), key=created_at): a stable sort of the
\* dict's keys, which are in insertion order, i.e. in increasing handle order.
Before(ts, a, b) ==
    \/ ts[a].created_at < ts[b].created_at
    \/ ts[a].created_at = ts[b].created_at /\ a < b

\* sorted_ids of _purge_old_tasks.
RECURSIVE SortedIds(_, _)
SortedIds(ts, S) ==
    IF S = {} THEN <<>>
    ELSE LET m == CHOOSE a \in S : \A b \in S \ {a} : Before(ts, a, b)
         IN <<m>> \o SortedIds(ts, S \ {m})

\* Second loop: the terminal records among sorted_ids[:excess].
CapEvicted(ts) ==
    IF Cardinality(DOMAIN ts) > MAX_TASK_HISTORY
    THEN LET sorted_ids == SortedIds(ts, DOMAIN ts)
             excess == Cardinality(DOMAIN ts) - MAX_TASK_HISTORY
         IN {sorted_ids[i] : i \in 1..excess} \cap
            {h \in DOMAIN ts : ts[h].status \in terminal}
    ELSE {}

\* set(to_remove) of _purge_old_tasks.
PurgeSet(ts, now) == TTLExpired(ts, now) \cup CapEvicted(ts)

\* ------------------------------------------------------------------------
\* Initial state
\* ------------------------------------------------------------------------
EngineInit ==
    /\ tasks = <<>>
    /\ task_queue = <<>>
    /\ clock = 1
    /\ nextId = 1
    /\ pc = "idle"
    /\ cur = 0
    /\ wnow = 0
    /\ to_remove = {}
    /\ purge_now = 0
    /\ purge_seen = <<>>
    /\ queue_pos = -1
    /\ resp = NoResp
    /\ cancel_at = [h \in Handles |-> "none"]
    /\ overran = FALSE

\* The process right after start-up: main() is inside serve_forever.
ProcessInit ==
    /\ main = "serving"
    /\ lock = "free"
    /\ wsec = "get"
    /\ req = <<"none", "idle">>

\* The blocks of a transformer with nd double-stream and ns single-stream
\* blocks, each named by its family and its index in the ModuleList.
Blocks(nd, ns) ==
    ({"double"} \X (0..(nd - 1))) \cup ({"single"} \X (0..(ns - 1)))

\* Every block a transformer of the model may have.
AllBlocks == Blocks(MaxBlocks, MaxBlocks)

\* After prepare_streaming: every block in pinned CPU memory, no forward
\* pass made yet.
StreamReady(nd, ns) ==
    /\ n_double = nd
    /\ n_single = ns
    /\ place = [b \in Blocks(nd, ns) |-> "cpu"]
    /\ spc = "idle"
    /\ fam = "none"
    /\ idx = 0
    /\ hs = <<>>
    /\ total_steps = 0
    /\ flag_age = 0

\* The runner in cpu_offload mode: no streaming wrapper.
Init == EngineInit /\ ProcessInit /\ StreamReady(0, 0)

\* The streaming wrapper on its own, for every size of the two families.
InitStream ==
    /\ EngineInit
    /\ ProcessInit
    /\ \E nd \in 0..MaxBlocks : \E ns \in 0..MaxBlocks : StreamReady(nd, ns)

\* ------------------------------------------------------------------------
\* The clock
\* ------------------------------------------------------------------------
Tick ==
    /\ clock < MaxTime
    /\ clock' = clock + 1
    /\ NoResponse
    /\ UNCHANGED <<stream_vars, process_vars>>
    /\ UNCHANGED <<tasks, task_queue, nextId, pc, cur, wnow, purge_locals,
                   cancel_at, overran>>

\* ------------------------------------------------------------------------
\* HTTP handlers
\* ------------------------------------------------------------------------

\* The record inserted by create.
NewRecord(now) ==
    [status |-> "QUEUED", progress |-> 0, result |-> "", error |-> "",
     message |-> "Queued.", created_at |-> now, started_at |-> None,
     finished_at |-> None, cancel_requested |-> FALSE]

\* Mutation: the count taken over the QUEUED records only.
QueuedCount(ts) == Cardinality({h \in DOMAIN ts : ts[h].status = "QUEUED"})

\* sum(1 for t in tasks.values() if t["status"] in ("QUEUED", "PROCESSING"))
ActiveCount(ts) == Cardinality({h \in DOMAIN ts : ts[h].status \in active})

\* Mutation: create stores the record and forgets the queue.
PutNothing(q, h) == q

\* Mutation: create puts the handle on the queue twice.
PutTwice(q, h) == Append(Append(q, h), h)

\* Mutation: the handle put at the front of the queue.
PutFront(q, h) == <<h>> \o q

\* task_queue.put(task_id) on a queue.Queue: first in, first out.
Put(q, h) == Append(q, h)

\* do_POST, action == "create", while fewer than `limit` were accepted.
CreateUpTo(limit) ==
    /\ Serving
    /\ nextId <= limit
    /\ LET h == nextId
           ts == [x \in DOMAIN tasks \cup {h} |->
                     IF x = h THEN NewRecord(clock) ELSE tasks[x]]
       IN /\ tasks' = ts
          /\ queue_pos' = ActiveCount(ts)
          /\ resp' = NoResp
          /\ task_queue' = Put(task_queue, h)
          /\ nextId' = h + 1
    /\ UNCHANGED <<clock, pc, cur, wnow, purge_locals, cancel_at, overran>>
    /\ UNCHANGED <<stream_vars, process_vars>>

Create == CreateUpTo(MaxTasks)

CreateBurst == CreateUpTo(MaxBurst)

CreateApi == CreateUpTo(MaxApiTasks)

\* Mutation: cancel also rewrites the message of a running task.
CancelTasksMessage(ts, h, now) ==
    IF h \notin DOMAIN ts THEN ts
    ELSE IF ts[h].status \in terminal THEN ts
    ELSE IF ts[h].status = "QUEUED"
         THEN [ts EXCEPT ![h].cancel_requested = TRUE,
                         ![h].status = "CANCELLED",
                         ![h].finished_at = now,
                         ![h].message = "Cancelled while queued."]
         ELSE [ts EXCEPT ![h].cancel_requested = TRUE,
                         ![h].message = "Cancelling..."]

\* Mutation: cancel without the test for a finished task.
CancelTasksNoGuard(ts, h, now) ==
    IF h \notin DOMAIN ts THEN ts
    ELSE IF ts[h].status = "QUEUED"
         THEN [ts EXCEPT ![h].cancel_requested = TRUE,
                         ![h].status = "CANCELLED",
                         ![h].finished_at = now,
                         ![h].message = "Cancelled while queued."]
         ELSE [ts EXCEPT ![h].cancel_requested = TRUE]

\* The registry after do_POST, action == "cancel".
CancelTasks(ts, h, now) ==
    IF h \notin DOMAIN ts THEN ts
    ELSE IF ts[h].status \in terminal THEN ts
    ELSE IF ts[h].status = "QUEUED"
         THEN [ts EXCEPT ![h].cancel_requested = TRUE,
                         ![h].status = "CANCELLED",
                         ![h].finished_at = now,
                         ![h].message = "Cancelled while queued."]
         ELSE [ts EXCEPT ![h].cancel_requested = TRUE]

\* _task_summary(task_id, t): the record as the API shows it.
TaskSummary(h, t) ==
    [task_id |-> h, status |-> t.status, progress |-> t.progress,
     message |-> t.message, result |-> t.result, error |-> t.error,
     created_at |-> t.created_at, started_at |-> t.started_at,
     finished_at |-> t.finished_at]

\* resp_code and resp_data of do_POST, action == "cancel".  For a finished
\* task resp_data is {"message": ..., **_task_summary(task_id, t)}: the keys
\* of the summary, its message included, are the ones sent.
CancelResponse(ts, h) ==
    IF h \notin DOMAIN ts
    THEN [op |-> "cancel", task_id |-> h, code |-> 404,
          error |-> "Task not found"]
    ELSE IF ts[h].status \in terminal
         THEN [op |-> "cancel", task_id |-> h, code |-> 200,
               task |-> TaskSummary(h, ts[h])]
         ELSE [op |-> "cancel", task_id |-> h, code |-> 200,
               message |-> "Cancel requested."]

\* do_POST, action == "cancel"; the response is kept when `answered`.
DoCancel(h, answered) ==
    /\ Serving
    /\ h < nextId
    /\ tasks' = CancelTasks(tasks, h, clock)
    /\ cancel_at' = IF h \in DOMAIN tasks /\ tasks[h].status \in active
                       /\ cancel_at[h] = "none"
                    THEN [cancel_at EXCEPT ![h] = tasks[h].status]
                    ELSE cancel_at
    /\ queue_pos' = -1
    /\ resp' = IF answered THEN CancelResponse(tasks, h) ELSE NoResp
    /\ UNCHANGED <<stream_vars, process_vars>>
    /\ UNCHANGED <<task_queue, clock, nextId, pc, cur, wnow, purge_locals,
                   overran>>

Cancel(h) == DoCancel(h, FALSE)

CancelAnswered(h) == DoCancel(h, TRUE)

\* Mutation: remove without the status test.
RemoveTasksAny(ts, h) == Pop(ts, {h})

\* The registry after do_DELETE /api/tasks/<id>.
RemoveTasks(ts, h) ==
    IF h \in DOMAIN ts /\ ts[h].status \in terminal THEN Pop(ts, {h}) ELSE ts

\* pos_map.get(tid) for a tid that is not in pos_map: no position.
NoPos == -1

\* Mutation: active_ids built from every record.
AllIds(ts) == SortedIds(ts, DOMAIN ts)

\* active_ids of do_GET /api/tasks: the active handles sorted by created_at.
ActiveIds(ts) == SortedIds(ts, {h \in DOMAIN ts : ts[h].status \in active})

\* pos_map.get(tid): the index of tid in active_ids (enumerate starts at 0).
PosMap(ts, h) ==
    LET active_ids == ActiveIds(ts)
    IN IF \E i \in DOMAIN active_ids : active_ids[i] = h
       THEN (CHOOSE i \in DOMAIN active_ids : active_ids[i] = h) - 1
       ELSE NoPos

\* The order of items.sort(key=created_at, reverse=True): a stable sort of
\* the items, which were built in the dict's order; reverse=True keeps equal
\* keys in their original order.
ListedBefore(ts, a, b) ==
    \/ ts[a].created_at > ts[b].created_at
    \/ ts[a].created_at = ts[b].created_at /\ a < b

RECURSIVE ListedIds(_, _)
ListedIds(ts, S) ==
    IF S = {} THEN <<>>
    ELSE LET m == CHOOSE a \in S : \A b \in S \ {a} : ListedBefore(ts, a, b)
         IN <<m>> \o ListedIds(ts, S \ {m})

\* "tasks" in the response of do_GET /api/tasks.
ListTasks(ts) ==
    LET ids == ListedIds(ts, DOMAIN ts)
    IN [i \in DOMAIN ids |->
           [task_id |-> ids[i], status |-> ts[ids[i]].status,
            created_at |-> ts[ids[i]].created_at,
            queue_position |-> PosMap(ts, ids[i])]]

\* resp_code and resp_data of do_DELETE /api/tasks/<id>.
RemoveResponse(ts, h) ==
    IF h \notin DOMAIN ts
    THEN [op |-> "remove", task_id |-> h, code |-> 404,
          error |-> "Task not found"]
    ELSE IF ts[h].status \in terminal
         THEN [op |-> "remove", task_id |-> h, code |-> 200,
               message |-> "Removed."]
         ELSE [op |-> "remove", task_id |-> h, code |-> 400,
               error |-> "Cannot remove active task."]

\* do_DELETE /api/tasks/<id>; the response is kept when `answered`.
DoRemove(h, answered) ==
    /\ Serving
    /\ h < nextId
    /\ tasks' = RemoveTasks(tasks, h)
    /\ queue_pos' = -1
    /\ resp' = IF answered THEN RemoveResponse(tasks, h) ELSE NoResp
    /\ UNCHANGED <<stream_vars, process_vars>>
    /\ UNCHANGED <<task_queue, clock, nextId, pc, cur, wnow, purge_locals,
                   cancel_at, overran>>

Remove(h) == DoRemove(h, FALSE)

RemoveAnswered(h) == DoRemove(h, TRUE)

\* ------------------------------------------------------------------------
\* do_inference (the work function), from checkpoint to checkpoint
\* ------------------------------------------------------------------------

\* History: the work function, called at `start`, is still running at `now`
\* and the elapsed time has passed the ceiling.
Overrun(start, now) == overran \/ now - start > TASK_TIMEOUT_SECONDS

\* do_inference entry up to the first checkpoint (lines 429-442).
InferPrepare ==
    /\ Running
    /\ pc = "started"
    /\ LET ts == UpdateTask(tasks, cur,
                    [progress |-> ProgressAt("prepare"), message |-> "Preparing generation..."])
       IN /\ tasks' = ShouldStopTasks(ts, cur, clock)
          /\ pc' = IF ShouldStop(ts, cur, clock) THEN "cancelled" ELSE "prepared"
    /\ overran' = Overrun(wnow, clock)
    /\ NoResponse
    /\ UNCHANGED <<stream_vars, process_vars>>
    /\ UNCHANGED <<task_queue, clock, nextId, cur, wnow, purge_locals,
                   cancel_at>>

\* Prompt encoding and image loading up to the second checkpoint
\* (lines 444-486); either may raise.
InferRun ==
    /\ Running
    /\ pc = "prepared"
    /\ \E raises \in BOOLEAN :
         LET t1 == UpdateTask(tasks, cur,
                      [progress |-> ProgressAt("generate"), message |-> "Generating..."])
             t2 == UpdateTask(t1, cur,
                      [progress |-> ProgressAt("run"), message |-> "Running inference..."])
         IN IF raises
            THEN /\ tasks' = t1
                 /\ pc' = "failed"
            ELSE /\ tasks' = ShouldStopTasks(t2, cur, clock)
                 /\ pc' = IF ShouldStop(t2, cur, clock)
                          THEN "cancelled" ELSE "pipe"
    /\ overran' = Overrun(wnow, clock)
    /\ NoResponse
    /\ UNCHANGED <<stream_vars, process_vars>>
    /\ UNCHANGED <<task_queue, clock, nextId, cur, wnow, purge_locals,
                   cancel_at>>

\* The PIPE(**call_kwargs) call returns or raises (lines 488-496).
InferPipe ==
    /\ Running
    /\ pc = "pipe"
    /\ \E raises \in BOOLEAN :
         IF raises
         THEN /\ tasks' = tasks
              /\ pc' = "failed"
         ELSE /\ tasks' = UpdateTask(tasks, cur,
                             [progress |-> ProgressAt("save"), message |-> "Saving result..."])
              /\ pc' = "saving"
    /\ overran' = Overrun(wnow, clock)
    /\ NoResponse
    /\ UNCHANGED <<stream_vars, process_vars>>
    /\ UNCHANGED <<task_queue, clock, nextId, cur, wnow, purge_locals,
                   cancel_at>>

\* out_image.save, the last update and the return (lines 498-503).
InferSave ==
    /\ Running
    /\ pc = "saving"
    /\ \E raises \in BOOLEAN :
         IF raises
         THEN /\ tasks' = tasks
              /\ pc' = "failed"
         ELSE /\ tasks' = UpdateTask(tasks, cur,
                             [progress |-> ProgressAt("finish"), message |-> "Done"])
              /\ pc' = "returned"
    /\ overran' = Overrun(wnow, clock)
    /\ NoResponse
    /\ UNCHANGED <<stream_vars, process_vars>>
    /\ UNCHANGED <<task_queue, clock, nextId, cur, wnow, purge_locals,
                   cancel_at>>

\* ------------------------------------------------------------------------
\* The worker thread
\* ------------------------------------------------------------------------

\* The registry after the worker's cancel re-check (lines 516-527).
DequeueTasks(ts, h, now) ==
    IF h \in DOMAIN ts /\ ts[h].cancel_requested
    THEN [ts EXCEPT ![h].status = "CANCELLED",
                    ![h].finished_at = now,
                    ![h].message = "Cancelled before processing."]
    ELSE ts

\* task_queue.get() and the locked re-check (lines 511-527).
WorkerGet ==
    /\ Running
    /\ pc = "idle"
    /\ task_queue # <<>>
    /\ Head(task_queue) # None
    /\ LET h == Head(task_queue)
       IN /\ task_queue' = Tail(task_queue)
          /\ tasks' = DequeueTasks(tasks, h, clock)
          /\ IF h \notin DOMAIN tasks \/ tasks[h].cancel_requested
             THEN pc' = "idle" /\ cur' = 0
             ELSE pc' = "dequeued" /\ cur' = h
    /\ cancel_at' = Forget(cancel_at, task_queue', cur')
    /\ NoResponse
    /\ UNCHANGED <<stream_vars, process_vars>>
    /\ UNCHANGED <<clock, nextId, wnow, purge_locals, overran>>

\* now = time.time(); _update_task(status="PROCESSING", ...) (lines 529-531).
WorkerStart ==
    /\ Running
    /\ pc = "dequeued"
    /\ wnow' = clock
    /\ tasks' = UpdateTask(tasks, cur,
                   [status |-> "PROCESSING", started_at |-> clock,
                    progress |-> ProgressAt("start"), message |-> "Starting..."])
    /\ pc' = "started"
    /\ NoResponse
    /\ UNCHANGED <<stream_vars, process_vars>>
    /\ UNCHANGED <<task_queue, clock, nextId, cur, purge_locals, cancel_at,
                   overran>>

\* do_inference returned (lines 537-541).
WorkerDone ==
    /\ Running
    /\ pc = "returned"
    /\ tasks' = UpdateTask(tasks, cur,
                   [status |-> "DONE", progress |-> ProgressAt("done"), result |-> "path",
                    finished_at |-> clock, message |-> "Completed"])
    /\ pc' = "purge"
    /\ NoResponse
    /\ UNCHANGED <<stream_vars, process_vars>>
    /\ UNCHANGED <<task_queue, clock, nextId, cur, wnow, purge_locals,
                   cancel_at, overran>>

\* Mutation: the handler of TaskCancelled writes nothing.
CancelledTasksSkip(ts, h, start, now) == ts

\* Mutation: the error text is written on both outcomes.
CancelledTasksError(ts, h, start, now) ==
    IF h \notin DOMAIN ts THEN ts
    ELSE [ts EXCEPT ![h].status = IF now - ts[h].started_at
                                       >= TASK_TIMEOUT_SECONDS
                                  THEN "TIMEOUT" ELSE "CANCELLED",
                    ![h].finished_at = now,
                    ![h].message = "Stopped",
                    ![h].error = "Task exceeded limit"]

\* Mutation: the ceiling itself still counts as cancelled.
CancelledTasksStrict(ts, h, start, now) ==
    IF h \notin DOMAIN ts THEN ts
    ELSE IF now - ts[h].started_at > TASK_TIMEOUT_SECONDS
         THEN [ts EXCEPT ![h].status = "TIMEOUT",
                         ![h].finished_at = now,
                         ![h].message = "Timed out",
                         ![h].error = "Task exceeded limit"]
         ELSE [ts EXCEPT ![h].status = "CANCELLED",
                         ![h].finished_at = now,
                         ![h].message = "Cancelled by user"]

\* The registry after `except TaskCancelled` (lines 543-556).
CancelledTasks(ts, h, start, now) ==
    IF h \notin DOMAIN ts THEN ts
    ELSE LET elapsed == now - (IF ts[h].started_at # None
                               THEN ts[h].started_at ELSE start)
             timed_out == elapsed >= TASK_TIMEOUT_SECONDS
         IN IF timed_out
            THEN [ts EXCEPT ![h].status = "TIMEOUT",
                            ![h].finished_at = now,
                            ![h].message = "Timed out",
                            ![h].error = "Task exceeded limit"]
            ELSE [ts EXCEPT ![h].status = "CANCELLED",
                            ![h].finished_at = now,
                            ![h].message = "Cancelled by user"]

WorkerCancelled ==
    /\ Running
    /\ pc = "cancelled"
    /\ tasks' = CancelledTasks(tasks, cur, wnow, clock)
    /\ pc' = "cleanup"
    /\ NoResponse
    /\ UNCHANGED <<stream_vars, process_vars>>
    /\ UNCHANGED <<task_queue, clock, nextId, cur, wnow, purge_locals,
                   cancel_at, overran>>

\* Mutation: no `except Exception` clause; the exception ends the thread.
WorkerErrorUncaught ==
    /\ Running
    /\ pc = "failed"
    /\ pc' = "dead"
    /\ NoResponse
    /\ UNCHANGED <<stream_vars, process_vars>>
    /\ UNCHANGED <<tasks, task_queue, clock, nextId, cur, wnow, purge_locals,
                   cancel_at, overran>>

\* `except Exception` (lines 563-569).
WorkerError ==
    /\ Running
    /\ pc = "failed"
    /\ tasks' = UpdateTask(tasks, cur,
                   [status |-> "ERROR", error |-> "exception",
                    finished_at |-> clock, message |-> "Error"])
    /\ pc' = "cleanup"
    /\ NoResponse
    /\ UNCHANGED <<stream_vars, process_vars>>
    /\ UNCHANGED <<task_queue, clock, nextId, cur, wnow, purge_locals,
                   cancel_at, overran>>

\* _cleanup_vram() at the end of the two except clauses (lines 561, 569).
WorkerCleanup ==
    /\ Running
    /\ pc = "cleanup"
    /\ pc' = "purge"
    /\ NoResponse
    /\ UNCHANGED <<stream_vars, process_vars>>
    /\ UNCHANGED <<tasks, task_queue, clock, nextId, cur, wnow, purge_locals,
                   cancel_at, overran>>

\* _purge_old_tasks() (line 571).
WorkerPurge ==
    /\ Running
    /\ pc = "purge"
    /\ purge_now' = clock
    /\ purge_seen' = [h \in DOMAIN tasks |->
                        [status |-> tasks[h].status,
                         created_at |-> tasks[h].created_at]]
    /\ to_remove' = PurgeSet(tasks, clock)
    /\ tasks' = Pop(tasks, PurgeSet(tasks, clock))
    /\ pc' = "purged"
    /\ NoResponse
    /\ UNCHANGED <<stream_vars, process_vars>>
    /\ UNCHANGED <<task_queue, clock, nextId, cur, wnow, cancel_at, overran>>

\* task_queue.task_done() and back to the top of the loop (line 572).
WorkerTaskDone ==
    /\ Running
    /\ pc = "purged"
    /\ pc' = "idle"
    /\ cur' = 0
    /\ wnow' = 0
    /\ to_remove' = {}
    /\ purge_now' = 0
    /\ purge_seen' = <<>>
    /\ overran' = FALSE
    /\ cancel_at' = Forget(cancel_at, task_queue, 0)
    /\ NoResponse
    /\ UNCHANGED <<stream_vars, process_vars>>
    /\ UNCHANGED <<tasks, task_queue, clock, nextId>>

\* `if item is None: break` (lines 511-513): the worker takes the sentinel
\* and leaves its loop; the thread ends.
WorkerExit ==
    /\ Running
    /\ pc = "idle"
    /\ task_queue # <<>>
    /\ Head(task_queue) = None
    /\ task_queue' = Tail(task_queue)
    /\ pc' = "exited"
    /\ NoResponse
    /\ UNCHANGED <<stream_vars, process_vars>>
    /\ UNCHANGED <<tasks, clock, nextId, cur, wnow, purge_locals, cancel_at,
                   overran>>

\* The clock and the worker thread.
Work ==
    \/ Tick
    \/ WorkerGet
    \/ WorkerStart
    \/ InferPrepare
    \/ InferRun
    \/ InferPipe
    \/ InferSave
    \/ WorkerDone
    \/ WorkerCancelled
    \/ WorkerError
    \/ WorkerCleanup
    \/ WorkerPurge
    \/ WorkerTaskDone

\* Everything but submission.
Step ==
    \/ \E h \in Handles : Cancel(h)
    \/ \E h \in Handles : Remove(h)
    \/ Work

Next == Create \/ Step

Spec == Init /\ [][Next]_vars

\* The same engine accepting one more submission.
NextBurst == CreateBurst \/ Step

SpecBurst == Init /\ [][NextBurst]_vars

\* The engine with the responses of cancel and remove on record.
NextApi ==
    \/ CreateApi
    \/ \E h \in Handles : CancelAnswered(h)
    \/ \E h \in Handles : RemoveAnswered(h)
    \/ Work

SpecApi == Init /\ [][NextApi]_vars

\* The steps of the worker thread (lines 509-572).
WorkerSteps ==
    \/ WorkerGet
    \/ WorkerStart
    \/ InferPrepare
    \/ InferRun
    \/ InferPipe
    \/ InferSave
    \/ WorkerDone
    \/ WorkerCancelled
    \/ WorkerError
    \/ WorkerCleanup
    \/ WorkerPurge
    \/ WorkerTaskDone

NextLive == CreateApi \/ Step

\* The runner with a worker thread that is scheduled whenever it can run
\* and whose do_inference calls return or raise; no shutdown.
SpecLive == Init /\ [][NextLive]_vars /\ WF_vars(WorkerSteps)

\* ------------------------------------------------------------------------
\* Shutdown (main, lines 805-817)
\* ------------------------------------------------------------------------

\* KeyboardInterrupt or SystemExit ends serve_forever (lines 810-812): no
\* request is handled from here on.
MainInterrupt ==
    /\ main = "serving"
    /\ main' = "finally"
    /\ NoResponse
    /\ UNCHANGED <<stream_vars, lock_vars>>
    /\ UNCHANGED <<tasks, task_queue, clock, nextId, pc, cur, wnow,
                   purge_locals, cancel_at, overran>>

\* task_queue.put(None) (line 815): the sentinel goes in behind whatever
\* is queued.
MainPutSentinel ==
    /\ main = "finally"
    /\ task_queue' = Append(task_queue, None)
    /\ main' = "closing"
    /\ NoResponse
    /\ UNCHANGED <<stream_vars, lock_vars>>
    /\ UNCHANGED <<tasks, clock, nextId, pc, cur, wnow, purge_locals,
                   cancel_at, overran>>

\* server.server_close() and the return of main (lines 816-821): nothing
\* joins worker_thread, which is a daemon thread (line 575), so the
\* interpreter exits and the worker stops wherever it is.
MainExit ==
    /\ main = "closing"
    /\ main' = "exited"
    /\ NoResponse
    /\ UNCHANGED <<stream_vars, lock_vars>>
    /\ UNCHANGED <<tasks, task_queue, clock, nextId, pc, cur, wnow,
                   purge_locals, cancel_at, overran>>

NextShutdown ==
    \/ Create
    \/ Work
    \/ WorkerExit
    \/ MainInterrupt
    \/ MainPutSentinel
    \/ MainExit

SpecShutdown == Init /\ [][NextShutdown]_<<vars, process_vars>>

\* ------------------------------------------------------------------------
\* tasks_lock
\* ------------------------------------------------------------------------

\* The statements of worker and do_inference that are `with tasks_lock:`
\* blocks, by themselves or through _update_task, _is_cancelled,
\* _check_timeout and _purge_old_tasks: the re-check (516), PROCESSING (530),
\* the progress updates (439, 446, 452, 480, 483, 496, 502), the two halves
\* of each _should_stop (441, 485), DONE (538), the except branches
\* (544, 565) and retention (571).
LockedSections ==
    {"recheck", "start", "prepare", "cancelled1", "timeout1", "generating",
     "encoding", "i2i", "running", "cancelled2", "timeout2", "saving",
     "finishing", "done", "except", "purge"}

\* The computation of the work function between its checkpoints: prompt
\* encoding (453), image loading (476), the PIPE call (488-492) and the
\* save (500).
ComputeSections == {"encode", "load", "pipe", "save"}

\* Mutation: the PIPE call sits inside a `with tasks_lock:` block.
LockedWithPipe(sec) == sec \in LockedSections \cup {"pipe"}

\* The worker is at a statement that runs under tasks_lock.
Locked(sec) == sec \in LockedSections

\* The statements that can follow `sec` in worker (509-572) and do_inference
\* (429-503); a computation or a true _should_stop leads to an except
\* branch.
Succ(sec) ==
    CASE sec = "get" -> {"recheck"}
      [] sec = "recheck" -> {"get", "start"}
      [] sec = "start" -> {"prepare"}
      [] sec = "prepare" -> {"cancelled1"}
      [] sec = "cancelled1" -> {"except", "timeout1"}
      [] sec = "timeout1" -> {"except", "generating"}
      [] sec = "generating" -> {"encoding"}
      [] sec = "encoding" -> {"encode"}
      [] sec = "encode" -> {"load", "except"}
      [] sec = "load" -> {"i2i", "running", "except"}
      [] sec = "i2i" -> {"running"}
      [] sec = "running" -> {"cancelled2"}
      [] sec = "cancelled2" -> {"except", "timeout2"}
      [] sec = "timeout2" -> {"except", "pipe"}
      [] sec = "pipe" -> {"saving", "except"}
      [] sec = "saving" -> {"save"}
      [] sec = "save" -> {"finishing", "except"}
      [] sec = "finishing" -> {"done"}
      [] sec = "done" -> {"purge"}
      [] sec = "except" -> {"cleanup"}
      [] sec = "cleanup" -> {"purge"}
      [] sec = "purge" -> {"task_done"}
      [] sec = "task_done" -> {"get"}

\* The requests whose handler takes tasks_lock: GET /api/check (639),
\* GET /api/tasks (649), POST check (705), cancel (716), create (758) and
\* DELETE (787).
RequestKinds == {"check", "list", "post_check", "cancel", "create", "delete"}

\* The worker enters a `with tasks_lock:` block.
WorkerAcquire ==
    /\ Locked(wsec)
    /\ lock = "free"
    /\ lock' = "worker"
    /\ UNCHANGED <<wsec, req>>
    /\ UNCHANGED <<vars, stream_vars, main>>

\* The worker leaves the block and goes on to the next statement.
WorkerRelease ==
    /\ lock = "worker"
    /\ lock' = "free"
    /\ wsec' \in Succ(wsec)
    /\ UNCHANGED req
    /\ UNCHANGED <<vars, stream_vars, main>>

\* The worker runs a statement that takes no lock: task_queue.get, a
\* computation of do_inference, _cleanup_vram, task_done.
WorkerRun ==
    /\ ~Locked(wsec)
    /\ wsec' \in Succ(wsec)
    /\ UNCHANGED <<lock, req>>
    /\ UNCHANGED <<vars, stream_vars, main>>

\* The server thread takes a request up to its `with tasks_lock:`.
RequestArrive(k) ==
    /\ req = <<"none", "idle">>
    /\ req' = <<k, "wait">>
    /\ UNCHANGED <<lock, wsec>>
    /\ UNCHANGED <<vars, stream_vars, main>>

\* The handler enters its block.
RequestAcquire ==
    /\ req[2] = "wait"
    /\ lock = "free"
    /\ lock' = "server"
    /\ req' = <<req[1], "in">>
    /\ UNCHANGED wsec
    /\ UNCHANGED <<vars, stream_vars, main>>

\* The handler leaves its block and sends the response.
RequestRelease ==
    /\ req[2] = "in"
    /\ lock' = "free"
    /\ req' = <<"none", "idle">>
    /\ UNCHANGED wsec
    /\ UNCHANGED <<vars, stream_vars, main>>

NextLock ==
    \/ WorkerAcquire
    \/ WorkerRelease
    \/ WorkerRun
    \/ \E k \in RequestKinds : RequestArrive(k)
    \/ RequestAcquire
    \/ RequestRelease

SpecLock == Init /\ [][NextLock]_lock_vars

\* ------------------------------------------------------------------------
\* The streaming transformer (NanoImageEditApp/_nuitka_build/test.py)
\* ------------------------------------------------------------------------

\* The blocks on the GPU or on their way to it.
Resident(pl) == {b \in DOMAIN pl : pl[b] # "cpu"}

\* The copies queued on copy_stream that have not completed.
Copying(pl) == {b \in DOMAIN pl : pl[b] = "copying"}

\* Mutation: waiting on copy_stream returns at once.
DrainedAlways(pl) == TRUE

\* copy_stream.synchronize() (lines 262, 283) and wait_stream(copy_stream)
\* (line 270) let the waiter go on once every copy queued on copy_stream
\* before the call has completed.
Drained(pl) == Copying(pl) = {}

\* len(blocks) of the running _stream_blocks call.
NumBlocks(f) == IF f = "double" THEN n_double ELSE n_single

\* Mutation: the two _stream_blocks calls of __call__ in the other order.
FamiliesSwapped == <<"single", "double">>

\* __call__ streams transformer.transformer_blocks (line 355) and then
\* transformer.single_transformer_blocks (line 375).
Families == <<"double", "single">>

\* torch.cat([encoder_hidden_states, hidden_states], dim=1) (line 361).
Cat == <<"cat", 0>>

\* _prefetch_block: block.to(device, non_blocking=True) on copy_stream.  A
\* block that is not on the CPU already has its tensors on the device (or on
\* their way): nothing is queued for it.
Prefetch(pl, b) == IF pl[b] = "cpu" THEN [pl EXCEPT ![b] = "copying"] ELSE pl

\* _offload_block: block.to('cpu'), synchronous.
Offload(pl, b) == [pl EXCEPT ![b] = "cpu"]

\* Mutation: the output of a block is put in front of the running state.
AppliedFront(h, b) == <<b>> \o h

\* forward_fn(blocks[i], i): the block is applied to the running state in
\* hs_container and its output becomes the running state.
Applied(h, b) == Append(h, b)

\* One more block begins computing while cancel_requested is set; the count
\* stops at the second such block.
Aged(k) == IF k \in {1, 2} THEN k + 1 ELSE k

\* __call__ is entered (lines 285-352): a forward pass of a job begins.  The
\* wrapper is the one built at load time, whatever the last pass did.  After
\* a pass that returned, the next one is the next denoising step of the same
\* PIPE call; after an exception the job is over and the next pass belongs
\* to a job whose cancel_requested is not set.
Forward ==
    /\ spc \in {"idle", "done", "aborted"}
    /\ total_steps < MaxPasses
    /\ total_steps' = total_steps + 1
    /\ hs' = <<>>
    /\ fam' = Families[1]
    /\ idx' = 0
    /\ spc' = "enter"
    /\ flag_age' = IF spc = "done" THEN flag_age ELSE 0
    /\ UNCHANGED <<n_double, n_single, place>>
    /\ UNCHANGED <<vars, process_vars>>

\* do_POST action == "cancel" (or _check_timeout at a checkpoint that the
\* wrapper never reaches) sets cancel_requested of the job whose forward
\* pass is running.  Nothing in test.py reads the registry, so no position
\* of the pass is changed by it.
StreamFlag ==
    /\ spc \notin {"idle", "done", "aborted"}
    /\ flag_age = 0
    /\ flag_age' = 1
    /\ UNCHANGED <<n_double, n_single, place, spc, fam, idx, hs, total_steps>>
    /\ UNCHANGED <<vars, process_vars>>

\* _stream_blocks entry (lines 256-262): return for an empty list, else
\* queue the copy of blocks[0].
StreamEnter ==
    /\ spc = "enter"
    /\ IF NumBlocks(fam) = 0
       THEN /\ spc' = "exit"
            /\ place' = place
       ELSE /\ spc' = "preload"
            /\ place' = Prefetch(place, <<fam, 0>>)
    /\ UNCHANGED <<n_double, n_single, fam, idx, hs, total_steps,
                   flag_age>>
    /\ UNCHANGED <<vars, process_vars>>

\* The device completes a copy queued on copy_stream.
CopyDone(b) ==
    /\ b \in Copying(place)
    /\ place' = [place EXCEPT ![b] = "gpu"]
    /\ UNCHANGED <<n_double, n_single, spc, fam, idx, hs, total_steps,
                   flag_age>>
    /\ UNCHANGED <<vars, process_vars>>

\* self.copy_stream.synchronize() after the pre-load (line 262).
StreamPreloaded ==
    /\ spc = "preload"
    /\ Drained(place)
    /\ idx' = 0
    /\ spc' = "loop"
    /\ UNCHANGED <<n_double, n_single, place, fam, hs, total_steps,
                   flag_age>>
    /\ UNCHANGED <<vars, process_vars>>

\* Top of the loop body (lines 264-267): queue the copy of blocks[i + 1].
StreamPrefetch ==
    /\ spc = "loop"
    /\ place' = IF idx + 1 < NumBlocks(fam)
                THEN Prefetch(place, <<fam, idx + 1>>) ELSE place
    /\ spc' = "wait"
    /\ UNCHANGED <<n_double, n_single, fam, idx, hs, total_steps,
                   flag_age>>
    /\ UNCHANGED <<vars, process_vars>>

\* current_stream.wait_stream(copy_stream) and the kernels of forward_fn
\* (lines 270-274): the compute stream starts them once everything queued on
\* copy_stream before the wait has completed.
StreamCompute ==
    /\ spc = "wait"
    /\ Drained(place)
    /\ spc' = "compute"
    /\ flag_age' = Aged(flag_age)
    /\ UNCHANGED <<n_double, n_single, place, fam, idx, hs, total_steps>>
    /\ UNCHANGED <<vars, process_vars>>

\* forward_fn has returned and torch.cuda.synchronize is through
\* (lines 274-276).
StreamComputed ==
    /\ spc = "compute"
    /\ hs' = Applied(hs, <<fam, idx>>)
    /\ spc' = "offload"
    /\ UNCHANGED <<n_double, n_single, place, fam, idx, total_steps,
                   flag_age>>
    /\ UNCHANGED <<vars, process_vars>>

\* Mutation: the exception of forward_fn is swallowed and the loop goes on
\* with the offload and the next block.
StreamRaiseResumed ==
    /\ spc \in {"wait", "compute"}
    /\ spc' = "offload"
    /\ UNCHANGED <<n_double, n_single, place, fam, idx, hs, total_steps,
                   flag_age>>
    /\ UNCHANGED <<vars, process_vars>>

\* forward_fn raises: _stream_blocks and __call__ have no handler, the
\* exception leaves the forward pass.
StreamRaise ==
    /\ spc \in {"wait", "compute"}
    /\ spc' = "aborted"
    /\ fam' = "none"
    /\ idx' = 0
    /\ UNCHANGED <<n_double, n_single, place, hs, total_steps,
                   flag_age>>
    /\ UNCHANGED <<vars, process_vars>>

\* self._offload_block(blocks[i]) (line 279).
StreamOffload ==
    /\ spc = "offload"
    /\ place' = Offload(place, <<fam, idx>>)
    /\ spc' = "sync"
    /\ UNCHANGED <<n_double, n_single, fam, idx, hs, total_steps,
                   flag_age>>
    /\ UNCHANGED <<vars, process_vars>>

\* End of the loop body (lines 281-283): copy_stream.synchronize() when a
\* next block was queued, then the next iteration or the return.
StreamSync ==
    /\ spc = "sync"
    /\ IF idx + 1 < NumBlocks(fam)
       THEN /\ Drained(place)
            /\ idx' = idx + 1
            /\ spc' = "loop"
       ELSE /\ idx' = 0
            /\ spc' = "exit"
    /\ UNCHANGED <<n_double, n_single, place, fam, hs, total_steps,
                   flag_age>>
    /\ UNCHANGED <<vars, process_vars>>

\* Back in __call__ (lines 357-378): after the first family the two streams
\* are concatenated and the second family is streamed; after the second the
\* pass returns its output.
StreamReturn ==
    /\ spc = "exit"
    /\ IF fam = Families[1]
       THEN /\ hs' = Append(hs, Cat)
            /\ fam' = Families[2]
            /\ spc' = "enter"
       ELSE /\ hs' = hs
            /\ fam' = "none"
            /\ spc' = "done"
    /\ UNCHANGED <<n_double, n_single, place, idx, total_steps,
                   flag_age>>
    /\ UNCHANGED <<vars, process_vars>>

NextStream ==
    \/ Forward
    \/ StreamFlag
    \/ StreamEnter
    \/ \E b \in AllBlocks : CopyDone(b)
    \/ StreamPreloaded
    \/ StreamPrefetch
    \/ StreamCompute
    \/ StreamComputed
    \/ StreamRaise
    \/ StreamOffload
    \/ StreamSync
    \/ StreamReturn

SpecStream == InitStream /\ [][NextStream]_stream_vars

TypeOK ==
    /\ DOMAIN tasks \subseteq Handles
    /\ clock \in Times
    /\ nextId \in 1..(MaxBurst + 1)
    /\ \A h \in DOMAIN tasks : tasks[h].status \in terminal \cup active

\* ------------------------------------------------------------------------
\* Lifecycle
\* ------------------------------------------------------------------------

\* The edges of the lifecycle state machine (a status may also stay as it is).
AllowedEdge(a, b) ==
    \/ a = b
    \/ a = "QUEUED" /\ b \in {"PROCESSING", "CANCELLED"}
    \/ a = "PROCESSING" /\ b \in terminal

\* do_inference has been called for the worker's current task.
Invoked == pc \notin {"idle", "dequeued", "started"}

\* C1: the status of a record changes only along QUEUED -> PROCESSING,
\* PROCESSING -> {DONE, ERROR, CANCELLED, TIMEOUT} and QUEUED -> CANCELLED;
\* a terminal status never changes again.
C1_StatusEdges ==
    [][\A h \in DOMAIN tasks \cap DOMAIN tasks' :
          AllowedEdge(tasks[h].status, tasks'[h].status)]_vars

\* C2: the work function is never invoked for a task whose cancel request
\* was applied while its status was QUEUED.
C2_CancelledQueuedNeverInvoked ==
    \A h \in Handles : cancel_at[h] = "QUEUED" => ~(cur = h /\ Invoked)

\* C3: a record that holds a terminal status is never changed again while it
\* stays in the registry; in particular the worker's dequeue leaves the status,
\* message and finished_at written by cancel as they are.
C3_TerminalFrozen ==
    [][\A h \in DOMAIN tasks \cap DOMAIN tasks' :
          tasks[h].status \in terminal =>
              /\ tasks'[h].status = tasks[h].status
              /\ tasks'[h].message = tasks[h].message
              /\ tasks'[h].finished_at = tasks[h].finished_at]_vars

\* C4: a task whose cancel request was accepted while it was PROCESSING never
\* ends DONE (the claim: it ends CANCELLED or TIMEOUT).
C4_CancelledProcessingNeverDone ==
    \A h \in DOMAIN tasks :
        cancel_at[h] = "PROCESSING" => tasks[h].status # "DONE"

\* C5: a task whose work function was still running when the elapsed time
\* passed the ceiling never ends DONE (the claim: it ends TIMEOUT).
C5_OverrunNeverDone ==
    overran /\ cur \in DOMAIN tasks => tasks[cur].status # "DONE"

\* ------------------------------------------------------------------------
\* Retention
\* ------------------------------------------------------------------------

\* A step of the worker that runs _purge_old_tasks.
PurgeStep == pc = "purge" /\ pc' = "purged"

Terminals(ts) == {h \in DOMAIN ts : ts[h].status \in terminal}

Size(ts) == Cardinality(DOMAIN ts)

C7_CapMetOrNoTerminal ==
    [][PurgeStep =>
          Size(tasks') <= MAX_TASK_HISTORY \/ Terminals(tasks') = {}]_vars

\* C8: when retention evicts a terminal record because of the cap, no
\* terminal record with a smaller created_at survives that run.
C8_OldestEvictedFirst ==
    [][PurgeStep =>
          \A h \in CapEvicted(tasks) :
             \A g \in Terminals(tasks') :
                tasks'[g].created_at >= tasks[h].created_at]_vars

\* Retention has just evicted a record by the cap that the TTL would have
\* kept, and a terminal record that was there, a younger one, survived.
C8_Witness ==
    /\ pc = "purged"
    /\ \E h \in to_remove, g \in Terminals(purge_seen) \ to_remove :
          /\ purge_now - purge_seen[h].created_at <= TASK_TTL_SECONDS
          /\ purge_seen[g].created_at > purge_seen[h].created_at

\* C9: after every run of retention no terminal record older than the TTL
\* remains.
C9_NoExpiredTerminal ==
    [][PurgeStep =>
          \A h \in Terminals(tasks') :
             clock - tasks'[h].created_at <= TASK_TTL_SECONDS]_vars

\* Retention has just evicted, from a registry within the cap, a terminal
\* record older than the TTL.
C9_Witness ==
    /\ pc = "purged"
    /\ Size(purge_seen) <= MAX_TASK_HISTORY
    /\ \E h \in to_remove :
          /\ purge_seen[h].status \in terminal
          /\ purge_now - purge_seen[h].created_at > TASK_TTL_SECONDS

\* ------------------------------------------------------------------------
\* Submission
\* ------------------------------------------------------------------------

\* The k-th of k submissions to an empty engine was just answered; no task
\* was cancelled or timed out and none has finished.
BackToBack(k) ==
    /\ nextId = k + 1
    /\ queue_pos # -1
    /\ \A h \in 1..k :
          /\ h \in DOMAIN tasks
          /\ tasks[h].status \in active
          /\ ~tasks[h].cancel_requested

\* C10: three tasks submitted back-to-back report queue positions 0, 1, 2:
\* the k-th submission reports k - 1.
C10_Positions012 ==
    \A k \in 1..3 : BackToBack(k) => queue_pos = k - 1

\* C11: create inserts the new record as QUEUED and answers, from the same
\* lock hold, the number of records that are QUEUED or PROCESSING then, the
\* new record included.
C11_CreateCountsActive ==
    queue_pos # -1 =>
        /\ nextId - 1 \in DOMAIN tasks
        /\ tasks[nextId - 1].status = "QUEUED"
        /\ tasks[nextId - 1].created_at = clock
        /\ queue_pos = Cardinality({h \in DOMAIN tasks :
                           tasks[h].status \in {"QUEUED", "PROCESSING"}})

\* A submission was just answered while an earlier task was PROCESSING: the
\* answer counted both.
C11_Witness ==
    /\ queue_pos = 2
    /\ \E h \in DOMAIN tasks : tasks[h].status = "PROCESSING"
    /\ tasks[nextId - 1].status = "QUEUED"

\* ------------------------------------------------------------------------
\* The worker's order
\* ------------------------------------------------------------------------

\* The handle is queued or is the one the worker is working on.
InFlight(h) == h \in Range(task_queue) \/ cur = h

\* C12: jobs run in submission order.  Handles are issued in submission
\* order, so for a submitted before b: once b has been started (it is, or has
\* been, PROCESSING), a has left the queue and the worker, and its record, if
\* still kept, holds a terminal status.  Stated for every pair, cancelled or
\* not.
C12_Fifo ==
    \A b \in DOMAIN tasks : \A a \in 1..(b - 1) :
        tasks[b].started_at # None =>
            /\ ~InFlight(a)
            /\ a \in DOMAIN tasks => tasks[a].status \in terminal

\* Two tasks that were never cancelled: the later one is PROCESSING and the
\* earlier one is DONE.
C12_Witness ==
    \E b \in DOMAIN tasks : \E a \in DOMAIN tasks :
        /\ a < b
        /\ tasks[b].status = "PROCESSING"
        /\ ~tasks[b].cancel_requested
        /\ tasks[a].status = "DONE"
        /\ ~tasks[a].cancel_requested

\* The worker is between its PROCESSING update and the terminal update of the
\* same task: the only place where do_inference runs.
Working ==
    pc \in {"started", "prepared", "pipe", "saving", "returned", "cancelled",
            "failed"}

Processing(ts) == {h \in DOMAIN ts : ts[h].status = "PROCESSING"}

\* C13: at most one record is PROCESSING, and a PROCESSING record is the
\* current task of the one worker, which runs one do_inference call at a time.
C13_OneProcessing ==
    /\ Cardinality(Processing(tasks)) <= 1
    /\ \A h \in Processing(tasks) : cur = h /\ Working

\* The pipeline call runs for one task while another one waits in the queue.
C13_Witness ==
    /\ pc = "pipe"
    /\ tasks[cur].status = "PROCESSING"
    /\ \E h \in Range(task_queue) :
          h \in DOMAIN tasks /\ tasks[h].status = "QUEUED"

\* ------------------------------------------------------------------------
\* Timestamps
\* ------------------------------------------------------------------------

\* The record went through PROCESSING and holds a terminal status.
RanToTerminal(t) == t.status \in terminal /\ t.started_at # None

\* started_at and finished_at are None until their transition: a QUEUED
\* record has neither, a PROCESSING record has no finished_at.
UnsetUntilTransition(t) ==
    /\ t.status = "QUEUED" => t.started_at = None /\ t.finished_at = None
    /\ t.status = "PROCESSING" => t.started_at # None /\ t.finished_at = None

\* C14: every task that ran to a terminal status through PROCESSING has
\* finished_at > started_at > created_at, and started_at and finished_at are
\* None until the corresponding transition happens.
C14_Timestamps ==
    \A h \in DOMAIN tasks :
        /\ RanToTerminal(tasks[h]) =>
              /\ tasks[h].finished_at > tasks[h].started_at
              /\ tasks[h].started_at > tasks[h].created_at
        /\ UnsetUntilTransition(tasks[h])

\* ------------------------------------------------------------------------
\* Requests on one handle
\* ------------------------------------------------------------------------

\* C15: remove deletes the record only when its status is terminal; for a
\* QUEUED or PROCESSING record it answers the error 'Cannot remove active
\* task.' and leaves the registry as it is; for an unknown handle it answers
\* not found and changes nothing.
C15_Remove ==
    [][resp'.op = "remove" =>
          LET h == resp'.task_id
          IN /\ h \notin DOMAIN tasks =>
                    /\ resp'.code = 404
                    /\ resp'.error = "Task not found"
                    /\ tasks' = tasks
             /\ h \in DOMAIN tasks /\ tasks[h].status \in active =>
                    /\ resp'.code = 400
                    /\ resp'.error = "Cannot remove active task."
                    /\ tasks' = tasks
             /\ h \in DOMAIN tasks /\ tasks[h].status \in terminal =>
                    /\ resp'.code = 200
                    /\ resp'.message = "Removed."
                    /\ tasks' = Pop(tasks, {h})]_vars

\* The remove of a PROCESSING record was just rejected and the record is
\* still there.
C15_Witness ==
    /\ resp.op = "remove"
    /\ resp.code = 400
    /\ resp.task_id \in DOMAIN tasks
    /\ tasks[resp.task_id].status = "PROCESSING"

\* C16: cancel on a record that is DONE, ERROR, CANCELLED or TIMEOUT changes
\* no field of it and answers the current record; and after any cancel a
\* second cancel of the same handle, whenever it comes, changes nothing.
C16_CancelIdempotent ==
    [][resp'.op = "cancel" =>
          LET h == resp'.task_id
          IN /\ h \in DOMAIN tasks /\ tasks[h].status \in terminal =>
                    /\ tasks' = tasks
                    /\ resp'.code = 200
                    /\ resp'.task = TaskSummary(h, tasks[h])
             /\ \A t \in Times : CancelTasks(tasks', h, t) = tasks']_vars

\* cancel was just answered for a task that had completed without ever being
\* cancelled.
C16_Witness ==
    /\ resp.op = "cancel"
    /\ resp.task_id \in DOMAIN tasks
    /\ tasks[resp.task_id].status = "DONE"
    /\ ~tasks[resp.task_id].cancel_requested
    /\ resp.task.status = "DONE"

\* ------------------------------------------------------------------------
\* Failures
\* ------------------------------------------------------------------------

\* C20: an exception of the work function other than TaskCancelled is caught
\* by the worker: its next step writes ERROR with the exception text and the
\* finish time into the record (if the record is there) and goes on to
\* reclamation, retention and the next task_queue.get(), with the queue as it
\* was.
C20_ErrorCaught ==
    [][pc = "failed" /\ pc' # "failed" =>
          /\ pc' = "cleanup"
          /\ task_queue' = task_queue
          /\ cur \in DOMAIN tasks =>
                /\ tasks'[cur].status = "ERROR"
                /\ tasks'[cur].error = "exception"
                /\ tasks'[cur].finished_at = clock]_vars

\* A task has failed, its record says so, and the worker is running the
\* work function of a later task.
C20_Witness ==
    \E a \in DOMAIN tasks : \E b \in DOMAIN tasks :
        /\ a < b
        /\ tasks[a].status = "ERROR"
        /\ tasks[a].error = "exception"
        /\ cur = b
        /\ pc = "pipe"

\* ------------------------------------------------------------------------
\* The streaming transformer
\* ------------------------------------------------------------------------

\* A _stream_blocks call is running.
InRun == spc \in {"preload", "loop", "wait", "compute", "offload", "sync"}

\* C17: during a run of _stream_blocks the number of blocks on the GPU or in
\* transfer to it, and not yet offloaded, never exceeds 2.
C17_AtMostTwoResident == InRun => Cardinality(Resident(place)) <= 2

\* The family f run block by block without streaming.
Chain(f, n) == [k \in 1..n |-> <<f, k - 1>>]

\* The running state of a forward pass computed sequentially.
Sequential(nd, ns) == Chain("double", nd) \o <<Cat>> \o Chain("single", ns)

\* C18: a forward pass that returns has applied every block exactly once, in
\* index order, each to the state its predecessor produced: its state is the
\* one of the sequential run.
C18_SequentialEquivalent ==
    spc = "done" => hs = Sequential(n_double, n_single)

\* A pass over the largest transformer has returned.
C18_Witness ==
    /\ spc = "done"
    /\ n_double = MaxBlocks
    /\ n_single = MaxBlocks
    /\ Len(hs) = 2 * MaxBlocks + 1

\* A single-stream block has been queued for transfer or computed in this
\* pass.
SingleBegun == fam = "single" /\ spc \notin {"enter", "idle", "done", "aborted"}

\* C19: no single-stream block begins transfer or computation until every
\* double-stream block has been computed and offloaded and the two streams
\* have been concatenated.
C19_DoubleBeforeSingle ==
    SingleBegun =>
        /\ \A k \in 0..(n_double - 1) : place[<<"double", k>>] = "cpu"
        /\ Len(hs) >= n_double + 1
        /\ SubSeq(hs, 1, n_double + 1) = Chain("double", n_double) \o <<Cat>>

\* The first single-stream block is being transferred after a family of
\* double-stream blocks ran.
C19_Witness ==
    /\ fam = "single"
    /\ spc = "preload"
    /\ n_double >= 2
    /\ place[<<"single", 0>>] = "copying"

\* ------------------------------------------------------------------------
\* The task list
\* ------------------------------------------------------------------------

\* The active records that come before h by created_at (records stamped
\* with the same time in submission order).
ActiveAhead(ts, h) ==
    {g \in DOMAIN ts :
        /\ ts[g].status \in active
        /\ \/ ts[g].created_at < ts[h].created_at
           \/ ts[g].created_at = ts[h].created_at /\ g < h}

\* C21: the list, served from any reachable registry, has one item per
\* record; an active record carries its 0-indexed position among the active
\* records ordered by created_at, a terminal record carries none, and the
\* items come most recent first by created_at.
C21_List ==
    LET items == ListTasks(tasks)
    IN /\ Len(items) = Cardinality(DOMAIN tasks)
       /\ {items[i].task_id : i \in DOMAIN items} = DOMAIN tasks
       /\ \A i \in DOMAIN items :
             /\ items[i].status \in active =>
                   items[i].queue_position =
                       Cardinality(ActiveAhead(tasks, items[i].task_id))
             /\ items[i].status \in terminal => items[i].queue_position = NoPos
       /\ \A i \in DOMAIN items : \A j \in DOMAIN items :
             i < j => items[i].created_at >= items[j].created_at

\* The registry holds a terminal record and a younger active one: the list
\* shows the active one first, at position 0, and the terminal one without
\* a position.
C21_Witness ==
    LET items == ListTasks(tasks)
    IN /\ Len(items) = 2
       /\ items[1].status = "PROCESSING"
       /\ items[1].queue_position = 0
       /\ items[1].created_at > items[2].created_at
       /\ items[2].status \in terminal
       /\ items[2].queue_position = NoPos

\* ------------------------------------------------------------------------
\* Reclamation
\* ------------------------------------------------------------------------

\* The worker has left do_inference by an exception and has not yet called
\* _cleanup_vram for this job.
ReclaimPending == pc \in {"cancelled", "failed", "cleanup"}

\* C22: on a cancelled, timed-out or failed job _cleanup_vram runs before the
\* terminal status is written: no state shows the job's record as CANCELLED,
\* TIMEOUT or ERROR while its reclamation has not run.
C22_ReclaimedBeforeTerminal ==
    ReclaimPending /\ cur \in DOMAIN tasks =>
        tasks[cur].status \notin {"CANCELLED", "TIMEOUT", "ERROR"}

\* C23: reclamation runs on every exit path of a job, normal completion
\* included, before the worker dequeues the next handle: the worker comes to
\* retention, its last stop before task_queue.get(), only from _cleanup_vram.
C23_ReclaimOnEveryExit ==
    [][pc' = "purge" /\ pc # "purge" => pc = "cleanup"]_vars

\* ------------------------------------------------------------------------
\* Classification at unwind time
\* ------------------------------------------------------------------------

\* The worker has just left `except TaskCancelled` for a record that is
\* still in the registry.
Unwound ==
    /\ pc = "cleanup"
    /\ cur \in DOMAIN tasks
    /\ tasks[cur].status \in {"TIMEOUT", "CANCELLED"}

\* C24: after the work function unwinds with TaskCancelled the record is
\* TIMEOUT exactly when the time from started_at to that moment is at or
\* beyond TASK_TIMEOUT_SECONDS, with error set, and CANCELLED otherwise,
\* with error left empty, whoever set cancel_requested.
C24_Classified ==
    Unwound =>
        LET t == tasks[cur]
            elapsed == t.finished_at - t.started_at
        IN /\ t.status = "TIMEOUT" <=> elapsed >= TASK_TIMEOUT_SECONDS
           /\ t.status = "TIMEOUT" => t.error # ""
           /\ t.status = "CANCELLED" => t.error = ""

\* A user's cancel of a running job, observed exactly at the ceiling (where
\* _check_timeout itself does not yet fire), is classified TIMEOUT.
C24_Witness ==
    /\ Unwound
    /\ tasks[cur].status = "TIMEOUT"
    /\ tasks[cur].error # ""
    /\ cancel_at[cur] = "PROCESSING"
    /\ tasks[cur].finished_at - tasks[cur].started_at = TASK_TIMEOUT_SECONDS

\* ------------------------------------------------------------------------
\* Transfers and computation of the streaming pipeline
\* ------------------------------------------------------------------------

\* blocks[i] of the running _stream_blocks call.
Current == <<fam, idx>>

\* C28: block i is computed only after its own transfer to the GPU has
\* completed and stays resident for the whole of its computation, block 0
\* included: whenever forward_fn(blocks[i], i) is running, blocks[i] is on
\* the GPU, neither on the CPU nor still being copied.
C28_ComputedWhenResident ==
    spc = "compute" => Current \in DOMAIN place /\ place[Current] = "gpu"

\* A block other than the pre-loaded one is being computed, its copy was
\* queued one iteration earlier, in the second pass of the wrapper.
C28_Witness ==
    /\ spc = "compute"
    /\ idx > 0
    /\ total_steps = MaxPasses
    /\ place[Current] = "gpu"

\* C29: the barrier before block i's computation waits only for block i's
\* own transfer, so that the copy of block i + 1 queued just before can be
\* in flight during the computation: at the barrier, once blocks[i] is on
\* the GPU the computation can start.
C29_BarrierOwnTransferOnly ==
    spc = "wait" /\ place[Current] = "gpu" => Drained(place)

\* ------------------------------------------------------------------------
\* A block that raises
\* ------------------------------------------------------------------------

\* C30: when forward_fn(blocks[i], i) raises, the pass is over: the loop
\* leaves block i either with its output applied or by the exception, which
\* applies nothing; after the exception no block is computed, block i is not
\* tried again, and the wrapper only runs again when its caller makes a new
\* call, from the first block and an empty running state.
C30_RaiseAborts ==
    [][/\ spc = "wait" /\ spc' # "wait" =>
             hs' = hs /\ spc' \in {"compute", "aborted"}
       /\ spc = "compute" /\ spc' # "compute" =>
             \/ spc' = "offload" /\ hs' = Applied(hs, Current)
             \/ spc' = "aborted" /\ hs' = hs
       /\ spc = "aborted" /\ spc' # "aborted" =>
             /\ spc' = "enter"
             /\ fam' = Families[1] /\ idx' = 0
             /\ hs' = <<>>
             /\ total_steps' = total_steps + 1]_stream_vars

\* The second block of a family has raised: the first one was computed, the
\* others of the pass were not, and the block queued for the GPU stays there.
C30_Witness ==
    /\ spc = "aborted"
    /\ hs = <<<<"double", 0>>>>
    /\ n_double + n_single > 2
    /\ place[<<"double", 1>>] = "gpu"

\* ------------------------------------------------------------------------
\* Checkpoints of the iterative phase
\* ------------------------------------------------------------------------

\* C27: the work function polls _should_stop once per block of the streaming
\* pipeline, so a flag set during the iterative phase is observed within one
\* iteration: after cancel_requested is set at most one block, the one whose
\* poll was already past, begins computing.
C27_ObservedWithinOneIteration == flag_age <= 2

\* ------------------------------------------------------------------------
\* Shutdown
\* ------------------------------------------------------------------------

\* C26: the sentinel is enqueued behind the pending handles, the worker
\* processes them and then the sentinel, and the process does not exit
\* before: when the process is gone the queue is empty and the worker has
\* left its loop through the sentinel.
C26_SentinelProcessedBeforeExit ==
    main = "exited" => task_queue = <<>> /\ pc = "exited"

\* ------------------------------------------------------------------------
\* tasks_lock and the computation
\* ------------------------------------------------------------------------

\* C25: the worker never holds tasks_lock while the computation of the work
\* function runs between checkpoints, so a request that arrives during it
\* finds the lock free and completes without waiting for the job: while the
\* worker computes, the lock is not the worker's, and a request that waits
\* for the lock can take it at once.
C25_LockFreeWhileComputing ==
    wsec \in ComputeSections =>
        /\ lock # "worker"
        /\ req[2] = "wait" => lock = "free"

\* A cancel request is inside its locked block while the PIPE call runs.
C25_Witness ==
    /\ wsec = "pipe"
    /\ lock = "server"
    /\ req = <<"cancel", "in">>

\* ------------------------------------------------------------------------
\* Fields of a record
\* ------------------------------------------------------------------------

\* C31: in every reachable state a record's error is non-empty only when its
\* status is ERROR or TIMEOUT, and its result is non-empty only when its
\* status is DONE.
C31_ErrorAndResult ==
    \A h \in DOMAIN tasks :
        /\ tasks[h].error # "" => tasks[h].status \in {"ERROR", "TIMEOUT"}
        /\ tasks[h].result # "" => tasks[h].status = "DONE"

\* A TIMEOUT record with its error and no result next to a DONE record with
\* its result and no error.
C31_Witness ==
    \E a \in DOMAIN tasks : \E b \in DOMAIN tasks :
        /\ tasks[a].status = "TIMEOUT" /\ tasks[a].error # ""
        /\ tasks[a].result = ""
        /\ tasks[b].status = "DONE" /\ tasks[b].result # ""
        /\ tasks[b].error = ""

\* C32: while a record is active its progress never decreases from one
\* update to the next, it stays within 0 and 100 percent, and it is 100 only
\* when the status is DONE.
C32_Progress ==
    [][\A h \in DOMAIN tasks' :
          /\ tasks'[h].progress \in 0..100
          /\ tasks'[h].progress = 100 => tasks'[h].status = "DONE"
          /\ h \in DOMAIN tasks /\ tasks[h].status \in active =>
                tasks'[h].progress >= tasks[h].progress]_vars

\* The job has passed the PIPE call: its record is PROCESSING at 90 percent
\* or more, below 100.
C32_Witness ==
    /\ pc \in {"saving", "returned"}
    /\ cur \in DOMAIN tasks
    /\ tasks[cur].status = "PROCESSING"
    /\ tasks[cur].progress \in 90..99

\* ------------------------------------------------------------------------
\* The stop predicate
\* ------------------------------------------------------------------------

\* cancel_requested of the record of h is set.
Flagged(h) == h \in DOMAIN tasks /\ tasks[h].cancel_requested

\* The time since started_at of the record of h is past the ceiling.
Late(h) ==
    /\ h \in DOMAIN tasks
    /\ tasks[h].started_at # None
    /\ clock - tasks[h].started_at > TASK_TIMEOUT_SECONDS

\* The registry with the timeout written into the record of h.
TimedOut(h) ==
    [tasks EXCEPT ![h].cancel_requested = TRUE,
                  ![h].message = "Timed out after limit"]

\* C33: _should_stop returns true exactly when cancel_requested is set or
\* the time since started_at exceeds the ceiling; in the second case it also
\* sets cancel_requested and writes the timeout message; for a record without
\* started_at or an unknown handle it returns false and changes nothing.
C33_StopPredicate ==
    \A h \in Handles :
        /\ ShouldStop(tasks, h, clock) <=> Flagged(h) \/ Late(h)
        /\ Late(h) => ShouldStopTasks(tasks, h, clock) = TimedOut(h)
        /\ h \notin DOMAIN tasks \/ tasks[h].started_at = None =>
              /\ ~ShouldStop(tasks, h, clock)
              /\ ShouldStopTasks(tasks, h, clock) = tasks

\* C33 (amended): _should_stop returns true exactly when cancel_requested is
\* set or the time since started_at exceeds the ceiling.  It writes only
\* when the flag is not set and the ceiling is exceeded: then it sets the
\* flag and the timeout message.  With the flag already set nothing is
\* written, whatever the time.  For an unknown handle it returns false, for
\* a record without started_at it returns the flag, and in both cases it
\* changes nothing.
C33_StopPredicateAmended ==
    \A h \in Handles :
        /\ ShouldStop(tasks, h, clock) <=> Flagged(h) \/ Late(h)
        /\ ShouldStopTasks(tasks, h, clock) =
              IF Late(h) /\ ~Flagged(h) THEN TimedOut(h) ELSE tasks
        /\ h \notin DOMAIN tasks => ~ShouldStop(tasks, h, clock)
        /\ h \in DOMAIN tasks /\ tasks[h].started_at = None =>
              (ShouldStop(tasks, h, clock) <=> tasks[h].cancel_requested)

\* A running job past the ceiling that nobody cancelled stands at a
\* checkpoint, next to a record cancelled while queued (flag set, never
\* started).
C33_Witness ==
    /\ pc \in {"started", "prepared"}
    /\ Late(cur) /\ ~Flagged(cur)
    /\ \E h \in DOMAIN tasks : tasks[h].started_at = None /\ Flagged(h)

\* ------------------------------------------------------------------------
\* Who writes a running record
\* ------------------------------------------------------------------------

\* A step of the server thread: a request is handled, the worker and the
\* clock stand still.
RequestStep == pc' = pc /\ clock' = clock

\* C34: a cancel request on a PROCESSING record changes only its
\* cancel_requested flag, and no request writes status, progress, message,
\* result, error or a timestamp of a PROCESSING record: a step of a request
\* handler leaves every PROCESSING record in place and equal to itself but
\* for the flag, which a cancel of that record sets.
C34_CancelFrame ==
    [][RequestStep =>
         \A h \in DOMAIN tasks :
            tasks[h].status = "PROCESSING" =>
               /\ h \in DOMAIN tasks'
               /\ tasks'[h] =
                     [tasks[h] EXCEPT !.cancel_requested =
                         IF resp'.op = "cancel" /\ resp'.task_id = h
                         THEN TRUE ELSE @]]_vars

\* A cancel request has just been answered for a record that is still
\* PROCESSING, with its flag set.
C34_Witness ==
    /\ resp.op = "cancel"
    /\ resp.code = 200
    /\ resp.task_id \in DOMAIN tasks
    /\ tasks[resp.task_id].status = "PROCESSING"
    /\ tasks[resp.task_id].cancel_requested
    /\ tasks[resp.task_id].progress >= 20

\* ------------------------------------------------------------------------
\* One enqueue, one dequeue, one start
\* ------------------------------------------------------------------------

\* No handle is on the queue twice.
NoDuplicates(q) == \A i \in DOMAIN q : \A j \in DOMAIN q : q[i] = q[j] => i = j

\* C35: every handle is enqueued exactly once, by create, and dequeued at
\* most once, so the work function runs at most once per handle and a record
\* becomes PROCESSING at most once, by the worker: the queue never holds a
\* handle twice, a handle enters it only as the fresh handle of a create, it
\* leaves it only by the worker's get, and a record turns PROCESSING only
\* as the worker's dequeued handle and only if it was never started before.
C35_OnceEach ==
    [][/\ NoDuplicates(task_queue')
       /\ \A h \in Range(task_queue') \ Range(task_queue) :
             h = nextId /\ nextId' = nextId + 1
       /\ \A h \in Range(task_queue) \ Range(task_queue') :
             pc = "idle" /\ h = Head(task_queue)
       /\ \A h \in DOMAIN tasks' :
             /\ tasks'[h].status = "PROCESSING"
             /\ h \in DOMAIN tasks => tasks[h].status # "PROCESSING"
             => /\ pc = "dequeued" /\ cur = h
                /\ h \in DOMAIN tasks
                /\ tasks[h].started_at = None]_vars

\* The second handle is in the PIPE call after the first one went through
\* the worker; the queue is empty and both handles were created.
C35_Witness ==
    /\ pc = "pipe"
    /\ cur = 2
    /\ nextId = 3
    /\ task_queue = <<>>
    /\ cur \in DOMAIN tasks
    /\ tasks[cur].status = "PROCESSING"

\* ------------------------------------------------------------------------
\* The record of the running job
\* ------------------------------------------------------------------------

\* do_inference is executing (between its call and its return or raise).
Executing == pc \in {"started", "prepared", "pipe", "saving"}

\* C36: whenever the work function is executing for a handle, the registry
\* holds a record of that handle with status PROCESSING; no cancel or remove
\* request between the worker's cancel check and its PROCESSING update can
\* have taken the record away or left it CANCELLED.
C36_RecordWhileExecuting ==
    Executing => cur \in DOMAIN tasks /\ tasks[cur].status = "PROCESSING"

\* ------------------------------------------------------------------------
\* Termination
\* ------------------------------------------------------------------------

C38_TimeoutNeverCancelled ==
    Unwound /\ cancel_at[cur] = "none" => tasks[cur].status = "TIMEOUT"

\* The check fired at the first clock reading past the ceiling and nobody
\* cancelled: the record is TIMEOUT with its error.
C38_Witness ==
    /\ Unwound
    /\ cancel_at[cur] = "none"
    /\ tasks[cur].status = "TIMEOUT"
    /\ tasks[cur].error # ""
    /\ tasks[cur].finished_at - tasks[cur].started_at > TASK_TIMEOUT_SECONDS

\* ------------------------------------------------------------------------
\* The wrapper across runs
\* ------------------------------------------------------------------------

\* C39: the wrapper is built once and reused for every forward pass and
\* job; at the start of each _stream_blocks run no block is resident on the
\* GPU and at the end of each run every block is back on the CPU, also in a
\* run that follows one aborted by an exception of forward_fn.
C39_CleanAtRunBoundaries ==
    spc \in {"enter", "exit"} => Resident(place) = {}

====
